---- MODULE Spec2Model ----
(***************************************************************************)
(* A model of toomanycells/similarityMatrix.py: the SimilarityMatrix       *)
(* object, compute_similarity_matrix and the three spectral partition      *)
(* operations compute_partition_for_cosp / _full / _normsp.                *)
(*                                                                         *)
(* Numbers.  Floating-point values are kept as exact integers in fixed     *)
(* point.  A feature entry f is stored as f * BOne, a similarity value s   *)
(* (a product of two feature entries, a row sum, L_all, O_c, L_c) as       *)
(* s * One with One = BOne * BOne, so that B @ B.T needs no rounding.  The *)
(* threshold self.eps is two units of the similarity scale, which leaves   *)
(* room for a non-zero row sum below the threshold (one unit) and for row  *)
(* sums exactly at +eps and -eps.  The modularity Q is a quotient of       *)
(* similarity values and is kept as an exact fraction.                     *)
(*                                                                         *)
(* Library calls (ARPACK eigs / eigsh, TruncatedSVD, pairwise kernels,     *)
(* TfidfTransformer) are not part of the source; what they return is a     *)
(* nondeterministic choice from a bounded set, and a solver may fail.      *)
(***************************************************************************)
EXTENDS Integers, Sequences, FiniteSets, TLC

\* Number of rows of the stored matrix.
N == 3
\* An off-by-one threshold: `if n_rows < 2`.
MinSplitOffByOne == 3 - 1

\* The smallest subset that is split: `if n_rows < 3: return (Q, partition)`.
MinSplit == 3
\* Fixed-point image of 1.0 on the feature scale.
BOne == 2
\* Fixed-point image of 1.0 on the similarity scale.
One == BOne * BOne
\* self.eps (1e-9 in the source) on the similarity scale.
eps == 2

VARIABLES
    X,                      \* self.X: row index -> sequence of entries
    use_hermitian_method,   \* self.use_hermitian_method
    trunc_SVD,              \* self.trunc_SVD: <<>> is None, else <<object>>
    norm_sq_vec,            \* self.norm_sq_vec: <<>> until assigned
    inv_diam_sq,            \* self.inv_diam_sq: <<>> until assigned
    similarity_norm,        \* self.similarity_norm: <<>> until assigned
    pc,                     \* position of the running call
    call,                   \* locals of the running partition call
    build,                  \* arguments and outcome of compute_similarity_matrix
    parked,                 \* a second partition call, while it is not running
    eval                    \* a function of the module applied on its own

vars == <<X, use_hermitian_method, trunc_SVD, norm_sq_vec, inv_diam_sq,
          similarity_norm, pc, call, build, parked, eval>>

object == <<X, use_hermitian_method, trunc_SVD, norm_sq_vec, inv_diam_sq,
            similarity_norm>>

----------------------------------------------------------------------------
\* Vector helpers (numpy)

RECURSIVE Sum(_)
Sum(s) == IF s = <<>> THEN 0 ELSE Head(s) + Sum(Tail(s))

Abs(x) == IF x < 0 THEN -x ELSE x

Dot(u, v) == Sum([k \in 1..Len(u) |-> u[k] * v[k]])

\* mask.sum()
Count(mask) == Sum([i \in 1..Len(mask) |-> IF mask[i] THEN 1 ELSE 0])

\* ones * mask
OnesMsk(mask) == [i \in 1..Len(mask) |-> IF mask[i] THEN 1 ELSE 0]

\* rows[mask]: the values of rows at the positions the mask selects, in order
RECURSIVE Take(_, _)
Take(r, mask) ==
    IF r = <<>> THEN <<>>
    ELSE (IF Head(mask) THEN <<Head(r)>> ELSE <<>>) \o Take(Tail(r), Tail(mask))

\* mask.all()
AllOf(mask) == \A i \in 1..Len(mask) : mask[i]

\* mask.any()
AnyOf(mask) == \E i \in 1..Len(mask) : mask[i]

Range(s) == {s[i] : i \in 1..Len(s)}

----------------------------------------------------------------------------
\* Input domains

RowIdx == 0 .. (N - 1)

\* Feature entries supplied by the caller (single feature column).
FVals == {-4, 0, 1}

\* n x 1 feature matrices
FeatureMatrices == {[i \in RowIdx |-> <<v[i]>>] : v \in [RowIdx -> FVals]}

\* feature matrices whose rows have unit norm (rows after normalization)
UnitMatrices == {[i \in RowIdx |-> <<v[i]>>] : v \in [RowIdx -> {-BOne, BOne}]}

\* n x n symmetric matrices: the Gram matrices of the feature columns
DenseMatrices ==
    {[i \in RowIdx |-> [j \in 1..N |-> v[i] * v[j - 1]]] : v \in [RowIdx -> FVals]}

NCols(M) == Len(M[0])

\* Ordered sequences of distinct row indices, up to the smallest size that
\* is split
RowSeqs ==
    {r \in UNION {[1..k -> RowIdx] : k \in 0..MinSplit} :
        \A i, j \in 1..Len(r) : i # j => r[i] # r[j]}

\* Split vectors an eigen-solver may return (only the signs matter)
SplitVectors(n) == [1..n -> {-1, 0, 1}]

\* Columns of the transformed block returned by TruncatedSVD.fit_transform
SVDVectors(n) == [1..n -> {-1, 1}]

\* singular_values_ of a rank-2 fit (largest first)
SVPairs == {<<2, 1>>, <<1, 1>>}

----------------------------------------------------------------------------
\* The modularity Q as an exact fraction.  den = 0 encodes a non-finite
\* float: num = 0 is nan, num = -1 is -inf.

QZero == [num |-> 0, den |-> 1]
QNaN == [num |-> 0, den |-> 0]
QNegInf == [num |-> -1, den |-> 0]

\* O_c / L_all - (L_c / L_all)**2
QTerm(O_c, L_c, L_all) ==
    IF L_all # 0
    THEN [num |-> O_c * L_all - L_c * L_c, den |-> L_all * L_all]
    ELSE IF O_c < 0 /\ L_c # 0 THEN QNegInf ELSE QNaN

\* float addition
QPlus(a, b) ==
    IF a = QNaN \/ b = QNaN THEN QNaN
    ELSE IF a.den = 0 \/ b.den = 0 THEN QNegInf
    ELSE IF a.den = b.den THEN [num |-> a.num + b.num, den |-> a.den]
    ELSE IF a = QZero THEN b
    ELSE IF b = QZero THEN a
    ELSE [num |-> a.num * b.den + b.num * a.den, den |-> a.den * b.den]

----------------------------------------------------------------------------
\* Linear algebra on a block given as a sequence of rows

\* B.T.dot(w)
BTdot(B, w) ==
    [k \in 1..Len(B[1]) |-> Sum([i \in 1..Len(B) |-> B[i][k] * w[i]])]

\* B @ u
MatVec(B, u) == [i \in 1..Len(B) |-> Dot(B[i], u)]

Ones(n) == [i \in 1..n |-> 1]

\* np.abs(row_sums) < self.eps
ZeroRowSumsMask(row_sums) ==
    [i \in 1..Len(row_sums) |-> Abs(row_sums[i]) < eps]

\* row_sums < -self.eps
NegRowSumsMask(row_sums) ==
    [i \in 1..Len(row_sums) |-> row_sums[i] < -eps]

\* row_sums[zero_row_sums_mask] = 0
Clamp(row_sums, mask) ==
    [i \in 1..Len(row_sums) |-> IF mask[i] THEN 0 ELSE row_sums[i]]

----------------------------------------------------------------------------
\* The locals of a partition call

NoCall ==
    [op |-> "none", rows |-> <<>>, blk |-> <<>>, L_all |-> 0,
     row_sums |-> <<>>, row_sums_mtx |-> <<>>,
     has_zero_row_sums |-> FALSE, has_neg_row_sums |-> FALSE,
     solves |-> <<>>, Wmat |-> <<>>, fitted |-> <<>>, singular_values |-> <<>>,
     W |-> <<>>, mask_c1 |-> <<>>,
     Q |-> QZero, partition |-> <<>>, err |-> "none"]

\* No second call is waiting
NoThread == [pc |-> "idle", call |-> NoCall]

\* No function is being applied on its own
NoEval == [fn |-> "none"]

\* O_c of one class; the sparse kernel squares the partial sums of B, the
\* dense one multiplies the block S.
ClassO(op, blk, ones_msk, n_rows_msk) ==
    IF op = "cosp"
    THEN LET row_sums_msk == BTdot(blk, ones_msk)
         IN  Dot(row_sums_msk, row_sums_msk) - n_rows_msk * One
    ELSE LET row_sums_msk == MatVec(blk, ones_msk)
         IN  Dot(ones_msk, row_sums_msk) - n_rows_msk * One

\* L_c of one class
ClassL(row_sums, ones_msk, n_rows_msk) ==
    Dot(ones_msk, row_sums) - n_rows_msk * One

\* An accumulation that assigns instead of adding: Q = O_c / L_all - ...
QAssign(Q, O_c, L_c, L_all) == QTerm(O_c, L_c, L_all)

\* Q += O_c / L_all - (L_c / L_all)**2
QAccumulate(Q, O_c, L_c, L_all) == QPlus(Q, QTerm(O_c, L_c, L_all))

\* for mask in masks: ... ; acc is (Q, partition) so far
RECURSIVE ModularityLoop(_, _, _)
ModularityLoop(masks, c, acc) ==
    IF masks = <<>> THEN acc
    ELSE LET mask == Head(masks)
             n_rows_msk == Count(mask)
             ones_msk == OnesMsk(mask)
             O_c == ClassO(c.op, c.blk, ones_msk, n_rows_msk)
             L_c == ClassL(c.row_sums, ones_msk, n_rows_msk)
         IN  ModularityLoop(Tail(masks), c,
                 [Q |-> QAccumulate(acc.Q, O_c, L_c, c.L_all),
                  partition |-> Append(acc.partition, Take(c.rows, mask))])

\* A split that puts the zero entries in the first class: 0 <= W.
MaskC1NonNegative(W) == [i \in 1..Len(W) |-> 0 <= W[i]]

\* mask_c1 = 0 < W
MaskC1(W) == [i \in 1..Len(W) |-> 0 < W[i]]

\* A second mask that is not negated.
MaskC2NotNegated(mask_c1) == mask_c1

\* mask_c2 = ~mask_c1
MaskC2(mask_c1) == [i \in 1..Len(mask_c1) |-> ~mask_c1[i]]

\* From the split vector to the returned (Q, partition)
Finish(c, W) ==
    LET mask_c1 == MaskC1(W)
        mask_c2 == MaskC2(mask_c1)
        seen == [c EXCEPT !.W = W, !.mask_c1 = mask_c1]
    IN  IF AllOf(mask_c1) \/ AllOf(mask_c2)
        THEN seen
        ELSE LET out == ModularityLoop(<<mask_c1, mask_c2>>, seen,
                            [Q |-> QZero, partition |-> <<>>])
             IN  [seen EXCEPT !.Q = out.Q, !.partition = out.partition]

\* row sums, flags and clamping, common to the operations
Checked(c, row_sums) ==
    LET zero_row_sums_mask == ZeroRowSumsMask(row_sums)
        has_zero_row_sums == AnyOf(zero_row_sums_mask)
        has_neg_row_sums == AnyOf(NegRowSumsMask(row_sums))
    IN  [c EXCEPT !.row_sums = IF has_zero_row_sums
                               THEN Clamp(row_sums, zero_row_sums_mask)
                               ELSE row_sums,
                  !.has_zero_row_sums = has_zero_row_sums,
                  !.has_neg_row_sums = has_neg_row_sums]

\* A check that rejects a block with either kind of row sum.
UnprocessableEither(c) == c.has_neg_row_sums \/ c.has_zero_row_sums

\* raise ValueError("Cannot have negative and zero row sums.")
Unprocessable(c) == c.has_neg_row_sums /\ c.has_zero_row_sums

----------------------------------------------------------------------------
\* compute_partition_for_cosp, up to the choice of the strategy

CospStrategy(c) ==
    IF c.has_neg_row_sums THEN "general"
    ELSE IF use_hermitian_method \/ c.has_zero_row_sums THEN "hermitian"
    ELSE "svd"

compute_partition_for_cosp(r) ==
    /\ pc = "idle"
    /\ LET n_rows == Len(r)
           start == [NoCall EXCEPT !.op = "cosp", !.rows = r]
       IN  IF n_rows < MinSplit
           THEN /\ pc' = "done"
                /\ call' = start
           ELSE LET B == [i \in 1..n_rows |-> X[r[i]]]
                    partial_row_sums == BTdot(B, Ones(n_rows))
                    L_all == Dot(partial_row_sums, partial_row_sums)
                                 - n_rows * One
                    row_sums == MatVec(B, partial_row_sums)
                    c == Checked([start EXCEPT !.blk = B, !.L_all = L_all],
                                 row_sums)
                IN  IF Unprocessable(c)
                    THEN /\ pc' = "done"
                         /\ call' = [c EXCEPT !.err = "UnprocessableMatrix"]
                    ELSE /\ pc' = CospStrategy(c)
                         /\ call' = IF CospStrategy(c) = "svd" THEN c
                                    ELSE [c EXCEPT !.row_sums_mtx = c.row_sums]
    /\ UNCHANGED <<object, build, parked, eval>>

----------------------------------------------------------------------------
\* compute_partition_for_full, up to the choice of the strategy

\* A dispatch that ignores the negative row sums.
FullStrategyAlwaysHermitian(c) == "hermitian"

FullStrategy(c) ==
    IF c.has_neg_row_sums THEN "general" ELSE "hermitian"

compute_partition_for_full(r) ==
    /\ pc = "idle"
    /\ LET n_rows == Len(r)
           start == [NoCall EXCEPT !.op = "full", !.rows = r]
       IN  IF n_rows < MinSplit
           THEN /\ pc' = "done"
                /\ call' = start
           ELSE IF \E j \in 1..n_rows : r[j] >= NCols(X)
           THEN \* self.X[np.ix_(rows, rows)]: a column index out of bounds
                /\ pc' = "done"
                /\ call' = [start EXCEPT !.err = "IndexError"]
           ELSE LET S == [i \in 1..n_rows |->
                             [j \in 1..n_rows |-> X[r[i]][r[j] + 1]]]
                    row_sums == MatVec(S, Ones(n_rows))
                    L_all == Sum(row_sums) - n_rows * One
                    \* sp.diags(row_sums) copies the sums before the clamp
                    c == Checked([start EXCEPT !.blk = S, !.L_all = L_all,
                                               !.row_sums_mtx = row_sums],
                                 row_sums)
                IN  IF Unprocessable(c)
                    THEN /\ pc' = "done"
                         /\ call' = [c EXCEPT !.err = "UnprocessableMatrix"]
                    ELSE /\ pc' = FullStrategy(c)
                         /\ call' = c
    /\ UNCHANGED <<object, build, parked, eval>>

----------------------------------------------------------------------------
\* compute_partition_for_normsp.  generate_norm_sim_as_linear_op reads
\* self.norm_sq_vec (line 961) and self.FDT (line 970); no method of the
\* class assigns self.FDT, so building the operator raises AttributeError
\* and the rest of the method is never reached.

compute_partition_for_normsp(r) ==
    /\ pc = "idle"
    /\ LET n_rows == Len(r)
           start == [NoCall EXCEPT !.op = "normsp", !.rows = r]
       IN  IF n_rows < MinSplit
           THEN /\ pc' = "done"
                /\ call' = start
           ELSE /\ pc' = "done"
                /\ call' = [start EXCEPT !.err = "AttributeError"]
    /\ UNCHANGED <<object, build, parked, eval>>

----------------------------------------------------------------------------
\* The solvers

Solved(c, name, outcome) == [c EXCEPT !.solves = Append(@, <<name, outcome>>)]

\* A symmetric-definite solve whose failure is not caught.
EigenHermitianUncaught ==
    /\ pc = "hermitian"
    /\ \/ /\ pc' = "done"
          /\ call' = [Solved(call, "EigenHermitian", "failed")
                         EXCEPT !.err = "SolverError"]
       \/ \E W \in SplitVectors(Len(call.rows)) :
             /\ pc' = "done"
             /\ call' = Finish(Solved(call, "EigenHermitian", "ok"), W)
    /\ UNCHANGED <<object, build, parked, eval>>

\* EigenHermitian(laplacian_mtx, k=2, M=row_sums_mtx, sigma=0, which="LM")
\* inside try/except: a failure falls through to the general solver.
EigenHermitian ==
    /\ pc = "hermitian"
    /\ \/ /\ pc' = "fallback"
          /\ call' = Solved(call, "EigenHermitian", "failed")
       \/ \E W \in SplitVectors(Len(call.rows)) :
             /\ pc' = "done"
             /\ call' = Finish(Solved(call, "EigenHermitian", "ok"), W)
    /\ UNCHANGED <<object, build, parked, eval>>

\* EigenGeneral(laplacian_mtx, k=2, M=row_sums_mtx, sigma=0, which="LM"),
\* called directly or from the except clause; its failure is not caught.
EigenGeneral ==
    /\ pc \in {"general", "fallback"}
    /\ \/ /\ pc' = "done"
          /\ call' = [Solved(call, "EigenGeneral", "failed")
                         EXCEPT !.err = "SolverError"]
       \/ \E W \in SplitVectors(Len(call.rows)) :
             /\ pc' = "done"
             /\ call' = Finish(Solved(call, "EigenGeneral", "ok"), W)
    /\ UNCHANGED <<object, build, parked, eval>>

\* W = self.trunc_SVD.fit_transform(C): the fit stores singular_values_ in
\* the shared object and returns the two transformed columns.
FitTransform ==
    /\ pc = "svd"
    /\ IF trunc_SVD = <<>>
       THEN \* self.trunc_SVD is None
            /\ pc' = "done"
            /\ call' = [call EXCEPT !.err = "AttributeError"]
            /\ UNCHANGED trunc_SVD
       ELSE \/ /\ pc' = "done"
               /\ call' = [Solved(call, "TruncatedSVD", "failed")
                              EXCEPT !.err = "SolverError"]
               /\ UNCHANGED trunc_SVD
            \/ \E sv \in SVPairs :
               \E c0, c1 \in SVDVectors(Len(call.rows)) :
                  /\ pc' = "pick"
                  /\ call' = [Solved(call, "TruncatedSVD", "ok")
                                 EXCEPT !.Wmat = <<c0, c1>>, !.fitted = sv]
                  /\ trunc_SVD' = <<[singular_values_ |-> sv]>>
    /\ UNCHANGED <<X, use_hermitian_method, norm_sq_vec, inv_diam_sq,
                   similarity_norm, build, parked, eval>>

\* A descending sort, which picks the larger singular value.
ArgSortDescending(sv) == IF sv[1] >= sv[2] THEN <<0, 1>> ELSE <<1, 0>>

\* np.argsort of two values: positions (from 0) in ascending order
ArgSort(sv) == IF sv[1] <= sv[2] THEN <<0, 1>> ELSE <<1, 0>>

\* singular_values = self.trunc_SVD.singular_values_; W = W[:, idx[0]]
PickComponent ==
    /\ pc = "pick"
    /\ LET singular_values == trunc_SVD[1].singular_values_
           idx == ArgSort(singular_values)
       IN  /\ pc' = "done"
           /\ call' = Finish([call EXCEPT !.singular_values = singular_values],
                             call.Wmat[idx[1] + 1])
    /\ UNCHANGED <<object, build, parked, eval>>

\* A return after a clamp that wrote through to the stored matrix: the
\* rows of the subset are zeroed in self.X.
ReturnClampStored ==
    /\ pc = "done"
    /\ pc' = "idle"
    /\ call' = NoCall
    /\ X' = [i \in DOMAIN X |->
                IF call.has_zero_row_sums /\ i \in Range(call.rows)
                THEN [k \in 1..Len(X[i]) |-> 0] ELSE X[i]]
    /\ UNCHANGED <<use_hermitian_method, trunc_SVD, norm_sq_vec, inv_diam_sq,
                   similarity_norm, build, parked, eval>>

\* return (Q, partition), or the exception reaches the caller
Return ==
    /\ pc = "done"
    /\ pc' = "idle"
    /\ call' = NoCall
    /\ UNCHANGED <<object, build, parked, eval>>

----------------------------------------------------------------------------
\* compute_similarity_matrix

SimilarityFunctions ==
    {"cosine_sparse", "norm_sparse", "cosine", "neg_exp", "laplacian",
     "gaussian", "div_by_sum", "div_by_delta_max"}

\* Argument values tried
FunctionArgs == SimilarityFunctions \cup {"bogus"}
NormArgs == {0, 1, 2, 3}
PowerArgs == {0, 1}
GammaArgs == {<<>>, <<0>>, <<1>>}          \* <<>> is None
TfIdfNormArgs == {"None", "l1", "bogus"}
ShiftArgs == {0, 3}

BuildArgs ==
    [similarity_function : FunctionArgs,
     similarity_norm : NormArgs,
     similarity_power : PowerArgs,
     similarity_gamma : GammaArgs,
     use_tf_idf : BOOLEAN,
     tf_idf_norm : TfIdfNormArgs,
     normalize_rows : BOOLEAN,
     shift_similarity_matrix : ShiftArgs,
     shift_until_nonnegative : BOOLEAN,
     store_similarity_matrix : BOOLEAN]

\* Feature matrices handed to the build: a single feature column whose rows
\* are non-zero and not all equal, so that no row norm and no diameter is 0.
BuildMatrices ==
    {M \in [RowIdx -> {<<-4>>, <<1>>}] : \E i, j \in RowIdx : M[i] # M[j]}

\* Values a library kernel exp(-gamma * d) rounds to for d > 0
ExpVals == 0 .. (One - 1)

\* The values the library may return for the chosen kernel
KernelValues(f) ==
    IF f \in {"neg_exp", "laplacian", "gaussian"} THEN ExpVals ELSE {0}

NoBuild == [status |-> "none"]

\* The state of the call while it runs: the object's fields and what has
\* been done to the matrix so far.
BuildState(a) ==
    [X |-> X, similarity_norm |-> similarity_norm, trunc_SVD |-> trunc_SVD,
     norm_sq_vec |-> norm_sq_vec, inv_diam_sq |-> inv_diam_sq,
     err |-> "none", msg |-> "",
     tf_idf |-> FALSE, normalized |-> FALSE, kernel |-> <<>>, shifted |-> <<>>]

Raise(s, err, msg) == [s EXCEPT !.err = err, !.msg = msg]

\* if similarity_norm < 1
InvalidNorm(a) == a.similarity_norm < 1

\* elif similarity_gamma <= 0 (gamma given)
InvalidGamma(a) == a.similarity_gamma # <<>> /\ a.similarity_gamma[1] <= 0

\* A check that lets a zero power through: similarity_power < 0.
InvalidPowerStrict(a) == a.similarity_power < 0

\* if similarity_power <= 0
InvalidPower(a) == a.similarity_power <= 0

\* if similarity_function not in similarity_functions
InvalidFunction(a) == a.similarity_function \notin SimilarityFunctions

\* if tf_idf_norm not in tf_idf_norms (checked when use_tf_idf)
InvalidTfIdfNorm(a) == a.tf_idf_norm # "None" /\ a.tf_idf_norm \notin {"l2", "l1"}

Sign(x) == IF x < 0 THEN -1 ELSE IF x > 0 THEN 1 ELSE 0

\* Rows divided by their p-norm.  A row of one entry has the norm |x| for
\* every p >= 1.
NormalizeRows(M) ==
    [i \in DOMAIN M |-> <<(M[i][1] * BOne) \div Abs(M[i][1])>>]

\* TfidfTransformer(norm, smooth_idf).fit_transform on a column without zero
\* rows: every document holds the term, the idf weight is 1; norm "l1"/"l2"
\* leaves unit rows.
TfIdfTransform(M, norm) == IF norm = "None" THEN M ELSE NormalizeRows(M)

\* pairwise_kernels(X, metric=...): the cosine of two one-entry rows is the
\* product of their signs; an exponential kernel is 1 on equal rows and a
\* value e below 1 elsewhere.
PairwiseKernels(M, metric, e) ==
    [i \in DOMAIN M |-> [j \in 1..N |->
        IF metric = "cosine" THEN Sign(M[i][1]) * Sign(M[j - 1][1]) * One
        ELSE IF M[i] = M[j - 1] THEN One ELSE e]]

\* pairwise_distances(X, metric=l1|l2), on the similarity scale
PairwiseDistances(M) ==
    [i \in DOMAIN M |-> [j \in 1..N |-> Abs(M[i][1] - M[j - 1][1]) * BOne]]

MaxOf(S) == CHOOSE x \in S : \A y \in S : y <= x
MinOf(S) == CHOOSE x \in S : \A y \in S : x <= y
Entries(M) == UNION {Range(M[i]) : i \in DOMAIN M}

\* X *= -0.5; X += 1
HalfComplement(D) ==
    [i \in DOMAIN D |-> [j \in 1..Len(D[i]) |-> One - D[i][j] \div 2]]

\* diam = X.max(); X *= -1 / diam; X += 1
DiameterComplement(D) ==
    LET diam == MaxOf(Entries(D))
    IN  [i \in DOMAIN D |-> [j \in 1..Len(D[i]) |->
            One - (D[i][j] * One) \div diam]]

\* self.X += shift
ShiftBy(M, shift) ==
    [i \in DOMAIN M |-> [j \in 1..Len(M[i]) |-> M[i][j] + shift]]

\* Lines 89-113: validation of the arguments
Validated(s, a) ==
    IF InvalidNorm(a)
    THEN Raise(s, "ValueError", "Unexpected similarity norm.")
    ELSE LET s1 == [s EXCEPT !.similarity_norm = <<a.similarity_norm>>]
         IN  IF InvalidGamma(a)
             THEN Raise(s1, "ValueError", "Unexpected similarity gamma.")
             ELSE IF InvalidPower(a)
             THEN Raise(s1, "ValueError", "Unexpected similarity power.")
             ELSE IF InvalidFunction(a)
             THEN Raise(s1, "ValueError", "Unexpected similarity fun.")
             ELSE s1

\* Lines 115-147: TF-IDF
TfIdfSection(s, a) ==
    IF s.err # "none" \/ ~a.use_tf_idf THEN s
    ELSE IF InvalidTfIdfNorm(a)
    THEN Raise(s, "ValueError", "Unexpected tf norm.")
    ELSE [s EXCEPT !.X = TfIdfTransform(s.X, a.tf_idf_norm), !.tf_idf = TRUE]

\* Lines 149-165: normalization
NormalizationSection(s, a) ==
    LET use_cos_sp == a.similarity_function = "cosine_sparse"
        use_dbs == a.similarity_function = "div_by_sum"
    IN  IF s.err = "none" /\ (a.normalize_rows \/ use_cos_sp \/ use_dbs)
        THEN [s EXCEPT !.X = NormalizeRows(s.X), !.normalized = TRUE]
        ELSE s

\* Lines 271-318: similarity norm should be 1 or 2
UnsupportedNorm(s) == s.similarity_norm # <<1>> /\ s.similarity_norm # <<2>>

\* Lines 167-318: the kernel
SimilaritySection(s, a, e) ==
    LET f == a.similarity_function
    IN  IF s.err # "none" THEN s
        ELSE IF f = "cosine_sparse"
        THEN [s EXCEPT !.trunc_SVD = <<[singular_values_ |-> <<>>]>>]
        ELSE IF f = "norm_sparse"
        THEN \* vec = self.compute_vector_of_norms(); self.norm_sq_vec = vec * vec
             \* self.compute_diameter_for_observations() lacks its matrix argument
             Raise([s EXCEPT !.norm_sq_vec =
                        <<[i \in 1..N |-> s.X[i - 1][1] * s.X[i - 1][1]]>>],
                   "TypeError", "matrix")
        ELSE IF f \in {"cosine", "neg_exp", "laplacian", "gaussian"}
        THEN [s EXCEPT !.X = PairwiseKernels(s.X, f, e)]
        ELSE IF UnsupportedNorm(s)
        THEN Raise(s, "ValueError", "Similarity norm should be 1 or 2.")
        ELSE IF f = "div_by_sum"
        THEN [s EXCEPT !.X = HalfComplement(PairwiseDistances(s.X))]
        ELSE [s EXCEPT !.X = DiameterComplement(PairwiseDistances(s.X))]

\* similarity_matrix_is_sparse
IsSparse(a) == a.similarity_function \in {"cosine_sparse", "norm_sparse"}

\* A shift section whose second test is `if` instead of `elif`: the fixed
\* shift is added on top of the shift to non-negative.
ShiftSectionBoth(s, a) ==
    IF s.err # "none" \/ IsSparse(a) THEN s
    ELSE LET min_value == MinOf(Entries(s.X))
             first == IF a.shift_until_nonnegative /\ min_value < 0
                      THEN -min_value ELSE 0
             total == first + a.shift_similarity_matrix
         IN  [s EXCEPT !.X = ShiftBy(s.X, total), !.kernel = <<s.X>>,
                       !.shifted = IF total # 0 THEN <<total>> ELSE <<>>]

\* Lines 321-336: shift of a dense matrix
ShiftSection(s, a) ==
    IF s.err # "none" \/ IsSparse(a) THEN s
    ELSE IF a.shift_until_nonnegative
    THEN LET min_value == MinOf(Entries(s.X))
         IN  IF min_value < 0
             THEN [s EXCEPT !.X = ShiftBy(s.X, -min_value),
                            !.kernel = <<s.X>>,
                            !.shifted = <<-min_value>>]
             ELSE [s EXCEPT !.kernel = <<s.X>>]
    ELSE IF a.shift_similarity_matrix # 0
    THEN [s EXCEPT !.X = ShiftBy(s.X, a.shift_similarity_matrix),
                   !.kernel = <<s.X>>,
                   !.shifted = <<a.shift_similarity_matrix>>]
    ELSE [s EXCEPT !.kernel = <<s.X>>]

\* Lines 338-342: os.path.join(self.output, ...); self.output is never assigned
StoreSection(s, a) ==
    IF s.err = "none" /\ ~IsSparse(a) /\ a.store_similarity_matrix
    THEN Raise(s, "AttributeError", "output")
    ELSE s

\* The whole call, section after section.  What it assigned to the object
\* stays assigned when it raises.
compute_similarity_matrix ==
    /\ pc = "new"
    /\ \E a \in BuildArgs :
       \E e \in KernelValues(a.similarity_function) :
       \E s1 \in {Validated(BuildState(a), a)} :
       \E s2 \in {TfIdfSection(s1, a)} :
       \E s3 \in {NormalizationSection(s2, a)} :
       \E s4 \in {SimilaritySection(s3, a, e)} :
       \E s5 \in {ShiftSection(s4, a)} :
       \E s \in {StoreSection(s5, a)} :
           /\ X' = s.X
           /\ similarity_norm' = s.similarity_norm
           /\ trunc_SVD' = s.trunc_SVD
           /\ norm_sq_vec' = s.norm_sq_vec
           /\ inv_diam_sq' = s.inv_diam_sq
           /\ build' = [status |-> IF s.err = "none" THEN "returned" ELSE "raised",
                        args |-> a, X0 |-> X, err |-> s.err, msg |-> s.msg,
                        tf_idf |-> s.tf_idf, normalized |-> s.normalized,
                        kernel |-> s.kernel, shifted |-> s.shifted]
    /\ pc' = "build_done"
    /\ UNCHANGED <<use_hermitian_method, call, parked, eval>>

\* The caller takes the return value or the exception and goes on to
\* partition.
BuildReturn ==
    /\ pc = "build_done"
    /\ pc' = "idle"
    /\ build' = NoBuild
    /\ UNCHANGED <<object, call, parked, eval>>

\* The object as __init__ leaves it
Init ==
    /\ X \in BuildMatrices
    /\ use_hermitian_method \in BOOLEAN
    /\ trunc_SVD = <<>>
    /\ norm_sq_vec = <<>>
    /\ inv_diam_sq = <<>>
    /\ similarity_norm = <<>>
    /\ pc = "new"
    /\ call = NoCall
    /\ build = NoBuild
    /\ parked = NoThread
    /\ eval = NoEval

NextBuild ==
    \/ compute_similarity_matrix
    \/ BuildReturn

SpecBuild == Init /\ [][NextBuild]_vars

----------------------------------------------------------------------------

\* The object when the driver starts to partition: as constructed around the
\* caller's matrix, after a cosine_sparse build (unit rows, SVD object
\* created), or holding a dense similarity matrix.
InitPartition ==
    /\ \/ X \in FeatureMatrices /\ trunc_SVD = <<>>
       \/ X \in UnitMatrices /\ trunc_SVD = <<[singular_values_ |-> <<>>]>>
       \/ X \in DenseMatrices /\ trunc_SVD = <<>>
    /\ use_hermitian_method \in BOOLEAN
    /\ norm_sq_vec = <<>>
    /\ inv_diam_sq = <<>>
    /\ similarity_norm = <<>>
    /\ pc = "idle"
    /\ call = NoCall
    /\ build = NoBuild
    /\ parked = NoThread
    /\ eval = NoEval

NextPartition ==
    \/ \E r \in RowSeqs : compute_partition_for_cosp(r)
    \/ \E r \in RowSeqs : compute_partition_for_full(r)
    \/ \E r \in RowSeqs : compute_partition_for_normsp(r)
    \/ EigenHermitian
    \/ EigenGeneral
    \/ FitTransform
    \/ PickComponent
    \/ Return

SpecPartition == InitPartition /\ [][NextPartition]_vars

\* The whole life of the object: construction, one build, partition calls
Next == NextBuild \/ NextPartition

Spec == Init /\ [][Next]_vars

----------------------------------------------------------------------------
\* Functions applied on their own: the object plays no part, the argument
\* and the value are held in eval.

\* Largest os.cpu_count() tried
MaxHardware == 32

\* Row counts around the tiers
RowCounts == {1, 499, 500, 4999, 5000, 49999, 50000, 50001}

\* The cap of the tier of n_rows
TierCap(n_rows) ==
    IF n_rows < 500 THEN 1
    ELSE IF n_rows < 5000 THEN 8
    ELSE IF n_rows < 50000 THEN 16
    ELSE 25

\* A worker count that takes all the hardware up to the cap.
NWorkersUpToHardware(n_rows, max_workers) ==
    IF TierCap(n_rows) < max_workers THEN TierCap(n_rows) ELSE max_workers

\* n_workers = 1, raised to the cap of the tier only if the machine has more
\* cores than the cap
NWorkers(n_rows, max_workers) ==
    IF n_rows < 500 THEN 1
    ELSE IF n_rows < 5000 THEN (IF 8 < max_workers THEN 8 ELSE 1)
    ELSE IF n_rows < 50000 THEN (IF 16 < max_workers THEN 16 ELSE 1)
    ELSE (IF 25 < max_workers THEN 25 ELSE 1)

\* No object takes part
InitEval ==
    /\ X = <<>>
    /\ use_hermitian_method = FALSE
    /\ trunc_SVD = <<>>
    /\ norm_sq_vec = <<>>
    /\ inv_diam_sq = <<>>
    /\ similarity_norm = <<>>
    /\ pc = "eval"
    /\ call = NoCall
    /\ build = NoBuild
    /\ parked = NoThread

InitWorkers ==
    /\ InitEval
    /\ eval \in [fn : {"n_workers"}, n_rows : RowCounts,
                 max_workers : 1..MaxHardware, out : {<<>>}]

\* Lines 195-209 for one row count and one machine
ChooseWorkers ==
    /\ eval.fn = "n_workers"
    /\ eval.out = <<>>
    /\ eval' = [eval EXCEPT !.out = <<NWorkers(eval.n_rows, eval.max_workers)>>]
    /\ UNCHANGED <<object, pc, call, build, parked>>

SpecWorkers == InitWorkers /\ [][ChooseWorkers]_vars

\* compute_diameter_for_observations on points of the plane.  The centroid
\* of n integer points has the denominator n and an l2 distance is a square
\* root, so a distance d is kept as its measure on the scale n: n * d for
\* the l1 norm and (n * d)^2 for the l2 norm, which orders the distances as
\* d does.

\* Largest number of points tried
MaxPoints == 3

Coordinates == {-1, 0, 2}

PointSets ==
    UNION {[1..n -> Coordinates \X Coordinates] : n \in 1..MaxPoints}

\* np.linalg.norm(v, ord=p), as a measure
Measure(v, lp_norm) ==
    IF lp_norm = "l1" THEN Abs(v[1]) + Abs(v[2]) ELSE v[1] * v[1] + v[2] * v[2]

\* k times a distance, as a measure
Scaled(k, m, lp_norm) == IF lp_norm = "l1" THEN k * m ELSE k * k * m

\* use_brute_force: pairwise_distances(matrix, metric=lp_norm).max()
BruteForceDiameter(matrix, lp_norm) ==
    LET n == Len(matrix)
        distance_matrix ==
            {Measure(<<matrix[i][1] - matrix[j][1], matrix[i][2] - matrix[j][2]>>,
                     lp_norm) : i, j \in 1..n}
    IN  Scaled(n, MaxOf(distance_matrix), lp_norm)

\* A centroid estimate that forgets the factor 2: diameter = max_norm.
CentroidRadius(matrix, lp_norm) ==
    LET n == Len(matrix)
        total == <<Sum([i \in 1..n |-> matrix[i][1]]),
                   Sum([i \in 1..n |-> matrix[i][2]])>>
        dists == {Measure(<<n * matrix[i][1] - total[1],
                            n * matrix[i][2] - total[2]>>, lp_norm) : i \in 1..n}
    IN  MaxOf(dists \cup {0})

\* default: centroid = matrix.mean(axis=0); max_norm over the rows from 0;
\* diameter = 2 * max_norm
CentroidDiameter(matrix, lp_norm) ==
    LET n == Len(matrix)
        total == <<Sum([i \in 1..n |-> matrix[i][1]]),
                   Sum([i \in 1..n |-> matrix[i][2]])>>
        dists == {Measure(<<n * matrix[i][1] - total[1],
                            n * matrix[i][2] - total[2]>>, lp_norm) : i \in 1..n}
        max_norm == MaxOf(dists \cup {0})
    IN  Scaled(2, max_norm, lp_norm)

InitDiameter ==
    /\ InitEval
    /\ eval \in [fn : {"diameter"}, matrix : PointSets,
                 lp_norm : {"l1", "l2"}, out : {<<>>}]

\* The default strategy and the brute-force strategy on the same points
compute_diameter_for_observations ==
    /\ eval.fn = "diameter"
    /\ eval.out = <<>>
    /\ eval' = [eval EXCEPT !.out =
                   <<[centroid |-> CentroidDiameter(eval.matrix, eval.lp_norm),
                      brute_force |->
                          BruteForceDiameter(eval.matrix, eval.lp_norm)]>>]
    /\ UNCHANGED <<object, pc, call, build, parked>>

SpecDiameter == InitDiameter /\ [][compute_diameter_for_observations]_vars

----------------------------------------------------------------------------
\* Two partition calls on one object, as the driver would issue them from
\* two threads: one call runs, the other is parked, and the scheduler may
\* swap them between any two steps.

\* Rows of the shared matrix: room for two disjoint subsets that are split
ConcIdx == 0 .. (2 * MinSplit - 1)

\* The row subsets of the two calls
ConcRowSeqs == {<<0, 1, 2>>, <<3, 4, 5>>}

\* Shared objects: unit feature rows after a cosine_sparse build (all
\* positive, or with one negative row), and a dense similarity matrix.
ConcUnitMatrices ==
    {[i \in ConcIdx |-> <<v[i]>>] :
        v \in {[i \in ConcIdx |-> BOne],
               [i \in ConcIdx |-> IF i = 0 THEN -BOne ELSE BOne]}}

ConcDenseMatrices ==
    {[i \in ConcIdx |-> [j \in 1..(2 * MinSplit) |-> One]]}

Disjoint(r, q) == Range(r) \cap Range(q) = {}

\* The scheduler swaps the running call and the parked one
Switch ==
    /\ pc \in {"idle", "general", "hermitian", "fallback", "svd", "pick", "done"}
    /\ pc' = parked.pc
    /\ call' = parked.call
    /\ parked' = [pc |-> pc, call |-> call]
    /\ UNCHANGED <<object, build, eval>>

InitConcurrent ==
    /\ \/ X \in ConcUnitMatrices /\ trunc_SVD = <<[singular_values_ |-> <<>>]>>
       \/ X \in ConcDenseMatrices /\ trunc_SVD = <<>>
    /\ use_hermitian_method \in BOOLEAN
    /\ norm_sq_vec = <<>>
    /\ inv_diam_sq = <<>>
    /\ similarity_norm = <<2>>
    /\ pc = "idle"
    /\ call = NoCall
    /\ build = NoBuild
    /\ parked = NoThread
    /\ eval = NoEval

NextConcurrent ==
    \/ \E r \in ConcRowSeqs :
          Disjoint(r, parked.call.rows) /\ compute_partition_for_cosp(r)
    \/ \E r \in ConcRowSeqs :
          Disjoint(r, parked.call.rows) /\ compute_partition_for_full(r)
    \/ \E r \in ConcRowSeqs :
          Disjoint(r, parked.call.rows) /\ compute_partition_for_normsp(r)
    \/ EigenHermitian
    \/ EigenGeneral
    \/ FitTransform
    \/ PickComponent
    \/ Return
    \/ Switch

SpecConcurrent == InitConcurrent /\ [][NextConcurrent]_vars

----------------------------------------------------------------------------
\* What the claims speak of

Calling == call.op # "none"
Returned == pc = "done" /\ call.err = "none"

\* The row sums of the similarity block of the running call, from the
\* block itself: B @ B.T @ 1 for the sparse kernel, S @ 1 for the dense one.
BlockRowSums ==
    LET blk == call.blk
        n == Len(blk)
    IN  IF call.op = "cosp"
        THEN [i \in 1..n |-> Sum([j \in 1..n |-> Dot(blk[i], blk[j])])]
        ELSE [i \in 1..n |-> Sum(blk[i])]

HasZero(sums) == \E i \in 1..Len(sums) : Abs(sums[i]) < eps
HasNeg(sums) == \E i \in 1..Len(sums) : sums[i] < -eps
SomeZeroSum == HasZero(BlockRowSums)
SomeNegSum == HasNeg(BlockRowSums)

Invoked(name) == \E k \in 1..Len(call.solves) : call.solves[k][1] = name
Times(name) ==
    Cardinality({k \in 1..Len(call.solves) : call.solves[k][1] = name})

\* C1: a returned partition is empty or has exactly two parts; the parts
\* are non-empty and disjoint and together hold exactly the row index
\* values the call was given.
C1_PartitionCoversRows ==
    Returned =>
        \/ call.partition = <<>>
        \/ /\ Len(call.partition) = 2
           /\ call.partition[1] # <<>>
           /\ call.partition[2] # <<>>
           /\ Range(call.partition[1]) \cap Range(call.partition[2]) = {}
           /\ Range(call.partition[1]) \cup Range(call.partition[2])
                  = Range(call.rows)
           /\ Len(call.partition[1]) + Len(call.partition[2]) = Len(call.rows)

C1_Witness ==
    /\ Returned
    /\ call.op = "full"
    /\ Len(call.partition) = 2
    /\ call.rows = <<2, 0, 1>>
    /\ call.partition[1] = <<2, 1>>

\* C2: every operation on fewer than 3 rows returns (0, empty) normally,
\* having read no block of the matrix and invoked no solver.
C2_SmallSubset ==
    (Calling /\ Len(call.rows) < 3) =>
        /\ pc = "done"
        /\ call.err = "none"
        /\ call.Q = QZero
        /\ call.partition = <<>>
        /\ call.blk = <<>>
        /\ call.solves = <<>>

C2_Witness ==
    /\ pc = "done"
    /\ call.op = "normsp"
    /\ Len(call.rows) = 2

\* C3: a call that has formed its block fails with UnprocessableMatrix
\* exactly when some row sum is below eps in absolute value and some row
\* sum is below -eps; the failing call invokes no solver and returns no
\* partition, and the error is raised in no other case.
C3_Unprocessable ==
    /\ (Calling /\ call.blk # <<>>) =>
           LET sums == BlockRowSums
               zero == HasZero(sums)
               neg == HasNeg(sums)
           IN  (zero /\ neg) <=>
                   (pc = "done" /\ call.err = "UnprocessableMatrix")
    /\ call.err = "UnprocessableMatrix" =>
           /\ call.blk # <<>>
           /\ call.solves = <<>>
           /\ call.W = <<>>
           /\ call.partition = <<>>

C3_Witness ==
    /\ call.op = "cosp"
    /\ call.err = "UnprocessableMatrix"
    /\ \E i, j \in 1..Len(call.blk) :
          i # j /\ Abs(BlockRowSums[i]) < eps /\ BlockRowSums[j] < -eps

\* C4: within one call each eigen-solver is attempted at most once; a failed
\* symmetric-definite attempt is followed by the one general attempt (pending
\* or made); a failed general attempt ends the call with the error.
C4_OneFallback ==
    /\ Times("EigenHermitian") <= 1
    /\ Times("EigenGeneral") <= 1
    /\ Len(call.solves) <= 2
    /\ \A k \in 1..Len(call.solves) :
          /\ call.solves[k] = <<"EigenHermitian", "failed">> =>
                \/ pc = "fallback" /\ Len(call.solves) = k
                \/ /\ Len(call.solves) = k + 1
                   /\ call.solves[k + 1][1] = "EigenGeneral"
          /\ call.solves[k] = <<"EigenGeneral", "failed">> =>
                /\ Len(call.solves) = k
                /\ pc = "done"
                /\ call.err = "SolverError"
                /\ call.partition = <<>>
    /\ pc = "fallback" =>
          call.solves = << <<"EigenHermitian", "failed">> >>

C4_Witness ==
    /\ pc = "done"
    /\ call.err = "SolverError"
    /\ call.solves = << <<"EigenHermitian", "failed">>,
                        <<"EigenGeneral", "failed">> >>

\* C5: in the dense and norm_sparse operations, once the row sums are
\* checked: with a row sum below -eps the general solver is the only solver,
\* invoked directly; otherwise the symmetric-definite solver comes first and
\* the general solver only after it failed.
C5_SolverOrder ==
    (call.op \in {"full", "normsp"} /\ call.blk # <<>>) =>
        LET sums == BlockRowSums
            zero == HasZero(sums)
            neg == HasNeg(sums)
        IN  ~(zero /\ neg) =>
                IF neg
                THEN /\ ~Invoked("EigenHermitian")
                     /\ pc \notin {"hermitian", "fallback"}
                     /\ pc = "general" \/ call.solves[1][1] = "EigenGeneral"
                ELSE /\ pc = "hermitian"
                        \/ call.solves[1][1] = "EigenHermitian"
                     /\ Invoked("EigenGeneral") =>
                           call.solves[1] = <<"EigenHermitian", "failed">>
                     /\ pc # "general"

C5_Witness ==
    /\ call.op = "full"
    /\ pc = "done"
    /\ ~SomeNegSum
    /\ call.solves = << <<"EigenHermitian", "failed">>,
                        <<"EigenGeneral", "ok">> >>
    /\ call.partition # <<>>

\* C6 as stated: a cosine_sparse call that is not UnprocessableMatrix never
\* uses an eigen-solver, whatever the row sums and the hermitian flag.
C6_AlwaysSVD ==
    (call.op = "cosp" /\ call.blk # <<>>
         /\ call.err # "UnprocessableMatrix") =>
        /\ ~Invoked("EigenHermitian")
        /\ ~Invoked("EigenGeneral")
        /\ pc \notin {"general", "hermitian", "fallback"}

\* C6 amended: the cosine_sparse call takes the truncated SVD, and no
\* eigen-solver, exactly when no row sum is below -eps, none is below eps in
\* absolute value and use_hermitian_method is off; the split vector is then
\* the column paired with a smallest singular value of the fit.  With a
\* negative row sum it takes the general solver directly, and otherwise
\* (flag set or a zero row sum) the symmetric-definite solver first.
C6_CospStrategy ==
    (call.op = "cosp" /\ call.blk # <<>>) =>
        LET sums == BlockRowSums
            zero == HasZero(sums)
            neg == HasNeg(sums)
        IN  ~(zero /\ neg) =>
            IF ~neg /\ ~zero /\ ~use_hermitian_method
            THEN /\ ~Invoked("EigenHermitian")
                 /\ ~Invoked("EigenGeneral")
                 /\ pc \in {"svd", "pick", "done"}
                 /\ call.W # <<>> =>
                       LET sv == trunc_SVD[1].singular_values_
                       IN  \E k \in 1..2 :
                              /\ call.W = call.Wmat[k]
                              /\ \A j \in 1..2 : sv[k] <= sv[j]
            ELSE /\ ~Invoked("TruncatedSVD")
                 /\ pc \notin {"svd", "pick"}
                 /\ call.Wmat = <<>>
                 /\ IF neg
                    THEN /\ ~Invoked("EigenHermitian")
                         /\ pc = "general"
                            \/ call.solves[1][1] = "EigenGeneral"
                    ELSE pc = "hermitian"
                            \/ call.solves[1][1] = "EigenHermitian"

C6_Witness ==
    /\ Returned
    /\ call.op = "cosp"
    /\ call.solves = << <<"TruncatedSVD", "ok">> >>
    /\ trunc_SVD[1].singular_values_ = <<2, 1>>
    /\ call.Wmat[1] # call.Wmat[2]
    /\ call.W = call.Wmat[2]
    /\ call.partition # <<>>

\* C7: the first class is the positions with W > 0 and the second its
\* complement, zeros included; when one class is the whole subset the call
\* returns (0, empty) normally.
C7_SplitBySign ==
    (pc = "done" /\ call.W # <<>>) =>
        LET n == Len(call.W)
            A == {i \in 1..n : call.W[i] > 0}
        IN  /\ call.err = "none"
            /\ IF A = {} \/ A = 1..n
               THEN call.Q = QZero /\ call.partition = <<>>
               ELSE /\ Len(call.partition) = 2
                    /\ Range(call.partition[1]) = {call.rows[i] : i \in A}
                    /\ Range(call.partition[2])
                           = {call.rows[i] : i \in (1..n) \ A}

C7_Witness ==
    /\ pc = "done"
    /\ call.op = "full"
    /\ call.W = <<0, 1, -1>>
    /\ Len(call.partition) = 2
    /\ call.rows[1] \in Range(call.partition[2])

\* Entry (i, j) of the similarity block of the running call
SimEntry(i, j) ==
    IF call.op = "cosp" THEN Dot(call.blk[i], call.blk[j]) ELSE call.blk[i][j]

RECURSIVE SetSum(_, _)
SetSum(f, S) ==
    IF S = {} THEN 0
    ELSE LET x == CHOOSE y \in S : TRUE IN f[x] + SetSum(f, S \ {x})

\* O_c * L_all - L_c^2 of the class of positions c
ClassNumerator(c) ==
    LET n == Len(call.blk)
        O_c == SetSum([i \in 1..n |-> SetSum([j \in 1..n |-> SimEntry(i, j)], c)], c)
                   - Cardinality(c) * One
        L_c == SetSum(call.row_sums, c) - Cardinality(c) * One
    IN  O_c * call.L_all - L_c * L_c

\* The modularity with the two masks taken in the other order
SwappedQ ==
    ModularityLoop(<<MaskC2(call.mask_c1), call.mask_c1>>, call,
                   [Q |-> QZero, partition |-> <<>>]).Q

\* C8: the returned Q is the same when the two classes are taken in the
\* other order, and is the sum over both classes of
\* O_c / L_all - (L_c / L_all)^2.
C8_QSymmetric ==
    (Returned /\ call.partition # <<>>) =>
        LET n == Len(call.W)
            A == {i \in 1..n : call.mask_c1[i]}
        IN  /\ call.Q = SwappedQ
            /\ call.L_all # 0 =>
                  /\ call.Q.den = call.L_all * call.L_all
                  /\ call.Q.num = ClassNumerator(A) + ClassNumerator((1..n) \ A)

C8_Witness ==
    /\ Returned
    /\ call.partition # <<>>
    /\ call.L_all # 0
    /\ call.Q.num # 0
    /\ LET n == Len(call.W)
           A == {i \in 1..n : call.mask_c1[i]}
       IN  ClassNumerator(A) # ClassNumerator((1..n) \ A)


----------------------------------------------------------------------------
\* compute_similarity_matrix: its arguments and its errors

Built == pc = "build_done"

\* The listed conditions of an invalid call
InvalidCall(a) ==
    \/ a.similarity_norm < 1
    \/ a.similarity_power <= 0
    \/ (a.similarity_gamma # <<>> /\ a.similarity_gamma[1] <= 0)
    \/ a.similarity_function \notin SimilarityFunctions
    \/ /\ a.similarity_function \in {"div_by_sum", "div_by_delta_max"}
       /\ a.similarity_norm \notin {1, 2}

\* The TF-IDF arguments are usable: no TF-IDF, or a norm of None, l1 or l2
TfIdfUsable(a) == ~a.use_tf_idf \/ a.tf_idf_norm \in {"None", "l1", "l2"}

\* C9: a call of compute_similarity_matrix whose similarity_norm is below 1,
\* whose similarity_power is not positive, whose similarity_gamma is given
\* and not positive, whose similarity_function is none of the eight kernels,
\* or whose kernel is div_by_sum or div_by_delta_max with a similarity_norm
\* other than 1 or 2, fails with InvalidParameter (a ValueError); and a call
\* with usable TF-IDF arguments fails with it in no other case.
C9_InvalidParameter ==
    Built =>
        /\ InvalidCall(build.args) => build.err = "ValueError"
        /\ (TfIdfUsable(build.args) /\ build.err = "ValueError")
               => InvalidCall(build.args)

\* A call whose only fault is a zero power has failed with ValueError.
C9_Witness ==
    /\ Built
    /\ build.args.similarity_power = 0
    /\ build.args.similarity_norm = 1
    /\ build.args.similarity_gamma = <<>>
    /\ build.args.similarity_function = "cosine"
    /\ build.err = "ValueError"

\* C10: when compute_similarity_matrix fails with InvalidParameter, the
\* stored matrix X is the one the object held before the call, and neither
\* TF-IDF nor row normalisation has been applied to it.
C10_NoPreprocessingBeforeError ==
    (Built /\ build.err = "ValueError") =>
        /\ X = build.X0
        /\ ~build.tf_idf
        /\ ~build.normalized


----------------------------------------------------------------------------
\* Partition calls that share the object

\* The two calls in flight
Threads == {call, parked.call}

\* C11: of two interleaved partition calls on disjoint row subsets, each
\* returns what it returns when run alone: the singular values a
\* cosine_sparse call reads to choose its component are the ones its own
\* fit produced, and its split vector is the column its own fit pairs with
\* the smallest singular value.
C11_CallsDoNotInterfere ==
    \A c \in Threads :
        c.singular_values # <<>> =>
            /\ c.singular_values = c.fitted
            /\ c.W = c.Wmat[ArgSort(c.fitted)[1] + 1]


\* C12: once the build is over, no step of a partition call, failing or not,
\* changes the stored matrix X, the stored squared row norms or the stored
\* inverse squared diameter; the clamp of the near-zero row sums changes
\* only the call's own row_sums.
C12_PartitionKeepsMatrix ==
    [][pc \notin {"new", "build_done"} =>
           /\ X' = X
           /\ norm_sq_vec' = norm_sq_vec
           /\ inv_diam_sq' = inv_diam_sq]_vars

\* A dense call has clamped a row sum that was not 0 and has returned a
\* partition.
C12_Witness ==
    /\ Returned
    /\ call.op = "full"
    /\ call.has_zero_row_sums
    /\ call.row_sums # BlockRowSums
    /\ call.partition # <<>>


----------------------------------------------------------------------------
\* The worker count

WorkersChosen == eval.fn = "n_workers" /\ eval.out # <<>>

\* C13 as stated: the worker count is min(tier cap, h).
C13_MinOfCapAndHardware ==
    WorkersChosen =>
        LET cap == TierCap(eval.n_rows)
            h == eval.max_workers
        IN  eval.out[1] = IF cap < h THEN cap ELSE h

\* C13 amended: the worker count is 1 below 500 rows; from 500 rows on it is
\* the cap of the tier (8 below 5000 rows, 16 below 50000, 25 otherwise)
\* when the hardware count h is greater than the cap, and 1 when h is the
\* cap or less; it is never below 1, never above h and never above the cap.
C13_WorkerCount ==
    WorkersChosen =>
        LET cap == TierCap(eval.n_rows)
            h == eval.max_workers
            n_workers == eval.out[1]
        IN  /\ n_workers = IF cap < h THEN cap ELSE 1
            /\ 1 <= n_workers
            /\ n_workers <= h
            /\ n_workers <= cap
            /\ eval.n_rows < 500 => n_workers = 1

\* 4999 rows on a machine of 8 cores: one worker
C13_Witness ==
    /\ WorkersChosen
    /\ eval.n_rows = 4999
    /\ eval.max_workers = 8
    /\ eval.out = <<1>>


----------------------------------------------------------------------------
\* The shift of a dense similarity matrix

\* C14: the stored dense matrix is the kernel matrix plus one value on every
\* entry; with shift_until_nonnegative the value is max(0, -min entry), so
\* the minimum entry ends >= 0 and a non-negative matrix is left as it is;
\* otherwise the value is shift_similarity_matrix.  For cosine_sparse and
\* norm_sparse the stored matrix is the feature matrix, never shifted.
C14_UniformShift ==
    Built =>
        LET a == build.args
        IN  /\ (build.err = "none" /\ ~IsSparse(a)) => build.kernel # <<>>
            /\ build.kernel # <<>> =>
                  LET K == build.kernel[1]
                      min_entry == MinOf(Entries(K))
                      value == IF a.shift_until_nonnegative
                               THEN (IF min_entry < 0 THEN -min_entry ELSE 0)
                               ELSE a.shift_similarity_matrix
                  IN  /\ ~IsSparse(a)
                      /\ DOMAIN X = DOMAIN K
                      /\ \A i \in DOMAIN K :
                            /\ Len(X[i]) = Len(K[i])
                            /\ \A j \in 1..Len(K[i]) : X[i][j] = K[i][j] + value
                      /\ a.shift_until_nonnegative =>
                            /\ MinOf(Entries(X)) >= 0
                            /\ min_entry >= 0 => X = K
            /\ IsSparse(a) =>
                  /\ build.kernel = <<>>
                  /\ build.shifted = <<>>
                  /\ X \in {build.X0, NormalizeRows(build.X0)}

\* A cosine matrix with a negative entry has been shifted to non-negative,
\* although a fixed shift was given as well.
C14_Witness ==
    /\ Built
    /\ build.err = "none"
    /\ build.args.similarity_function = "cosine"
    /\ build.args.shift_until_nonnegative
    /\ build.args.shift_similarity_matrix # 0
    /\ build.shifted = <<One>>
    /\ MinOf(Entries(X)) = 0
    /\ MinOf(Entries(build.kernel[1])) = -One


----------------------------------------------------------------------------
\* The norm_sparse kernel

\* C15: a norm_sparse build with valid arguments returns normally and leaves
\* the squared row norms of the feature rows and the inverse squared
\* diameter in the object, ready for compute_partition_for_normsp.
C15_NormSparseUsable ==
    (Built /\ build.args.similarity_function = "norm_sparse"
        /\ ~InvalidCall(build.args) /\ TfIdfUsable(build.args)) =>
       /\ build.err = "none"
       /\ norm_sq_vec # <<>>
       /\ inv_diam_sq # <<>>

----------------------------------------------------------------------------
\* The diameter estimate

\* C16: for every non-empty point set and p in {1, 2}, the default
\* (centroid) strategy returns at least what the brute-force strategy
\* returns on the same points and norm.
C16_CentroidBoundsDiameter ==
    (eval.fn = "diameter" /\ eval.out # <<>>) =>
        eval.out[1].centroid >= eval.out[1].brute_force

\* Three points on which the centroid estimate is strictly larger than the
\* true l2 diameter, which is not 0.
C16_Witness ==
    /\ eval.fn = "diameter"
    /\ eval.out # <<>>
    /\ eval.lp_norm = "l2"
    /\ Len(eval.matrix) = 3
    /\ eval.out[1].brute_force > 0
    /\ eval.out[1].centroid > eval.out[1].brute_force


----------------------------------------------------------------------------
\* The degree operator

\* C17: in every partition operation the degree operator diag(row_sums) that
\* a solver is given has exactly 0 at every position whose row sum is below
\* eps in absolute value: the clamp comes before the operator is formed.
C17_ClampBeforeDegree ==
    (pc \in {"general", "hermitian", "fallback"} \/ call.solves # <<>>) =>
        (call.row_sums_mtx # <<>> =>
            LET sums == BlockRowSums
            IN  \A i \in 1..Len(sums) :
                   Abs(sums[i]) < eps => call.row_sums_mtx[i] = 0)


----------------------------------------------------------------------------
\* The scaling of the truncated-SVD branch

\* C18: a cosine_sparse call that reaches the truncated-SVD branch has only
\* strictly positive row sums, whatever the row sums are, those at +eps and
\* -eps included: 1 / sqrt(row_sum) is taken of no zero or negative value.
C18_PositiveSumsAtSVD ==
    (call.op = "cosp" /\ (pc \in {"svd", "pick"} \/ Invoked("TruncatedSVD"))) =>
        LET sums == BlockRowSums
        IN  \A i \in 1..Len(sums) : sums[i] > 0

====
